---- MODULE Spec2Model ----
(***************************************************************************)
(* tntorch/optimize.py: optimize (the iterative learning driver) and dof   *)
(* (the degrees-of-freedom counter).                                       *)
(*                                                                         *)
(* A call of optimize is a frame: its arguments, its locals, its position  *)
(* (pc) and a few history counters.  Every block of the function is a pure *)
(* operator from frame to frame (Do...), and the actions install the       *)
(* operator's result.  Losses are exact integers; tol is a rational with   *)
(* denominator 2; a float quotient is an extended rational, with the       *)
(* infinities and the nan that a float division by zero yields.            *)
(***************************************************************************)
EXTENDS Integers, Sequences, FiniteSets

\* ------------------------------------------------------------------ bounds
MaxObj == 4
MaxDim == 2
MaxTensors == 2
MaxLoss == 3
MaxTolNum == 2
MaxIter == 3
MaxPrintFreq == 2

\* ------------------------------------------------- tensor networks (inputs)
\* A core or a factor matrix: an object with an identity (kind and id), a
\* learnability flag and an element count.  Equal records are the same object.
Obj(k, i) == [kind |-> k, id |-> i, requires_grad |-> (i % 2 = 1), numel |-> i \div 2]

Core(i) == Obj("core", i)

Factor(i) == Obj("U", i)

\* An absent factor matrix (Us[n] is None).
NoneObj == [kind |-> "None", id |-> 0, requires_grad |-> FALSE, numel |-> 0]

IsNone(U) == U.kind = "None"

Cores == {Core(i) : i \in 1..MaxObj}

Factors == {Factor(i) : i \in 1..MaxObj}

\* A tensor network: cores and Us, one of each per dimension.
Network(cs, us) == [cores |-> cs, Us |-> us]

\* No object stands at two dimensions of one network.
Distinct(xs) == \A i, j \in DOMAIN xs : (i # j /\ ~IsNone(xs[i])) => xs[i] # xs[j]

NetworksOfDim(d) ==
    {Network(cs, us) : cs \in {c \in [1..d -> Cores] : Distinct(c)},
                       us \in {u \in [1..d -> Factors \cup {NoneObj}] : Distinct(u)}}

Networks == UNION {NetworksOfDim(d) : d \in 1..MaxDim}

\* t.ndim: the number of cores.
ndim(t) == Len(t.cores)

\* The tensors argument: one network, or a list/tuple of networks.
Single(t) == [isList |-> FALSE, items |-> <<t>>]

ListOf(ts) == [isList |-> TRUE, items |-> ts]

\* ------------------------------------------------------------ float helpers
\* tol: None, or the rational num/2.
NoTol == [isNone |-> TRUE, num |-> 0]

Tol(n) == [isNone |-> FALSE, num |-> n]

Tols == {NoTol} \cup {Tol(n) : n \in -1..MaxTolNum}

\* Extended numbers: a finite rational num/den (den > 0), an infinity or nan.
Fin(n, d) == [kind |-> "fin", num |-> n, den |-> d]

PosInf == [kind |-> "posinf", num |-> 0, den |-> 1]

NegInf == [kind |-> "neginf", num |-> 0, den |-> 1]

NaN == [kind |-> "nan", num |-> 0, den |-> 1]

\* -x
Neg(x) ==
    CASE x.kind = "fin" -> Fin(-x.num, x.den)
      [] x.kind = "posinf" -> NegInf
      [] x.kind = "neginf" -> PosInf
      [] OTHER -> NaN

\* x / l for a float tensor l of integer value: no exception on l = 0.
Div(x, l) ==
    CASE x.kind = "nan" -> NaN
      [] x.kind = "fin" /\ l > 0 -> Fin(x.num, x.den * l)
      [] x.kind = "fin" /\ l < 0 -> Fin(-x.num, x.den * (-l))
      [] x.kind = "fin" /\ l = 0 ->
            IF x.num > 0 THEN PosInf ELSE IF x.num < 0 THEN NegInf ELSE NaN
      [] x.kind = "posinf" -> IF l >= 0 THEN PosInf ELSE NegInf
      [] OTHER -> IF l >= 0 THEN NegInf ELSE PosInf

\* x <= tol (a comparison with nan is false).
LeqTol(x, tol) ==
    CASE x.kind = "fin" -> 2 * x.num <= tol.num * x.den
      [] x.kind = "neginf" -> TRUE
      [] OTHER -> FALSE

\* losses[-k]
Last(losses, k) == losses[Len(losses) + 1 - k]

\* iter % print_freq == 0 for print_freq # 0 (the sign of a Python remainder
\* follows the divisor; it is zero exactly when print_freq divides iter).
RemainderIsZero(i, pf) == i % (IF pf < 0 THEN -pf ELSE pf) = 0

\* ------------------------------------------------------ optimize, by block
\* Lines 24-25: a lone network is wrapped in a list.
Normalize(tensors) == IF ~tensors.isList THEN ListOf(tensors.items) ELSE tensors

\* Line 28 without the learnability test.
AllCores(t) == t.cores

\* Line 28: [c for c in t.cores if c.requires_grad]
LearnableCores(t) == SelectSeq(t.cores, LAMBDA c : c.requires_grad)

\* Line 29 without the learnability test.
PresentUs(t) == SelectSeq(t.Us, LAMBDA U : ~IsNone(U))

\* Line 29: [U for U in t.Us if U is not None and U.requires_grad]
LearnableUs(t) == SelectSeq(t.Us, LAMBDA U : ~IsNone(U) /\ U.requires_grad)

\* Lines 26-29: the loop over the tensors, extending parameters.
RECURSIVE CollectParameters(_)
CollectParameters(ts) ==
    IF ts = <<>> THEN <<>>
    ELSE LearnableCores(Head(ts)) \o LearnableUs(Head(ts)) \o CollectParameters(Tail(ts))

\* The combination that keeps the first component only.
ReduceFirst(loss) == loss[1]

\* Line 43: reduce(lambda x, y: x + y, loss)
RECURSIVE Reduce(_)
Reduce(loss) == IF Len(loss) = 1 THEN loss[1] ELSE Reduce(SubSeq(loss, 1, Len(loss) - 1)) + loss[Len(loss)]

\* Lines 44-47
DeltaLoss(losses) ==
    IF Len(losses) >= 2 THEN Fin(Last(losses, 1) - Last(losses, 2), 1) ELSE NegInf

\* The criterion checked from iteration 3 on.
StoppingCriterionFrom3(iter, tol, losses, delta_loss) ==
    /\ iter >= 3
    /\ ~tol.isNone
    /\ \/ 2 * Last(losses, 1) <= tol.num
       \/ LeqTol(Div(Neg(delta_loss), Last(losses, 1)), tol)
    /\ Last(losses, 2) - Last(losses, 1) < Last(losses, 3) - Last(losses, 2)

\* The criterion without the test that tol is given (None read as 0).
StoppingCriterionAnyTol(iter, tol, losses, delta_loss) ==
    /\ iter >= 2
    /\ \/ 2 * Last(losses, 1) <= tol.num
       \/ LeqTol(Div(Neg(delta_loss), Last(losses, 1)), tol)
    /\ Last(losses, 2) - Last(losses, 1) < Last(losses, 3) - Last(losses, 2)

\* The criterion without the deceleration test.
StoppingCriterionNoSlowdown(iter, tol, losses, delta_loss) ==
    /\ iter >= 2
    /\ ~tol.isNone
    /\ \/ 2 * Last(losses, 1) <= tol.num
       \/ LeqTol(Div(Neg(delta_loss), Last(losses, 1)), tol)

\* The criterion with the deceleration test made non-strict.
StoppingCriterionNonStrict(iter, tol, losses, delta_loss) ==
    /\ iter >= 2
    /\ ~tol.isNone
    /\ \/ 2 * Last(losses, 1) <= tol.num
       \/ LeqTol(Div(Neg(delta_loss), Last(losses, 1)), tol)
    /\ Last(losses, 2) - Last(losses, 1) <= Last(losses, 3) - Last(losses, 2)

\* Lines 48-49: the stopping criterion.
StoppingCriterion(iter, tol, losses, delta_loss) ==
    /\ iter >= 2
    /\ ~tol.isNone
    /\ \/ 2 * Last(losses, 1) <= tol.num
       \/ LeqTol(Div(Neg(delta_loss), Last(losses, 1)), tol)
    /\ Last(losses, 2) - Last(losses, 1) < Last(losses, 3) - Last(losses, 2)

\* Lines 44-49: the deepest entry losses[-k] the loop body reads after the
\* append: losses[-2] at line 45 under len(losses) >= 2, and at lines 48-49
\* losses[-1] once iter >= 2 and tol is not None hold, losses[-2] and
\* losses[-3] once the test against tol holds too (and short-circuits).
LookbackDepth(iter, tol, losses) ==
    IF /\ iter >= 2
       /\ ~tol.isNone
       /\ \/ 2 * Last(losses, 1) <= tol.num
          \/ LeqTol(Div(Neg(DeltaLoss(losses)), Last(losses, 1)), tol)
    THEN 3
    ELSE IF Len(losses) >= 2 THEN 2 ELSE 1

\* The budget test made one iteration late.
BudgetExhaustedLate(iter, max_iter) == iter = max_iter + 1

\* Line 52
BudgetExhausted(iter, max_iter) == iter = max_iter

\* ------------------------------------------------------------------- dof
\* The loop counting every present factor, learnable or not.
RECURSIVE DofLoopAllUs(_, _, _)
DofLoopAllUs(t, n, result) ==
    IF n > ndim(t) THEN result
    ELSE LET r1 == IF t.cores[n].requires_grad THEN result + t.cores[n].numel ELSE result
             r2 == IF ~IsNone(t.Us[n]) THEN r1 + t.Us[n].numel ELSE r1
         IN  DofLoopAllUs(t, n + 1, r2)

\* Lines 86-90: the loop body for dimension n (1-based here), from result.
RECURSIVE DofLoop(_, _, _)
DofLoop(t, n, result) ==
    IF n > ndim(t) THEN result
    ELSE LET r1 == IF t.cores[n].requires_grad THEN result + t.cores[n].numel ELSE result
             r2 == IF ~IsNone(t.Us[n]) /\ t.Us[n].requires_grad
                   THEN r1 + t.Us[n].numel ELSE r1
         IN  DofLoop(t, n + 1, r2)

\* Lines 85-91
dof(t) == DofLoop(t, 1, 0)

\* ------------------------------------------------------------ environment
LossVals == -1..MaxLoss

\* What a call of a collaborator does: it raises, or it returns (for
\* loss_function: a scalar, isSeq = FALSE, or a tuple of scalars).
Returns(isSeq, items) == [raises |-> FALSE, isSeq |-> isSeq, items |-> items]

Raises == [raises |-> TRUE, isSeq |-> FALSE, items |-> <<>>]

Ok == Returns(FALSE, <<>>)

LossResults ==
    {Returns(FALSE, <<v>>) : v \in LossVals}
        \cup {Returns(TRUE, <<a, 1>>) : a \in 0..1}
        \cup {Raises}

\* The loop of a call with max_iter < 0 and no convergence never ends: the
\* model follows a call for at most EvalCap evaluations of loss_function.
EvalCap == MaxIter + 1

\* ---------------------------------------------------------------- frames
VARIABLES
    tensors, tol, max_iter, print_freq, verbose,    \* arguments of optimize
    parameters, optimizer, losses, converged, iter, \* its locals
    loss, delta_loss,
    pc,                                             \* its position
    grad,                                           \* .grad of the parameters
    nEvals, nBackward, nSteps, nPrints,             \* calls made so far
    status, error,                                  \* final status line, exception
    twin,                                           \* a second call (SpecPair)
    dofcall                                         \* a call of dof (SpecDof)

vars == <<tensors, tol, max_iter, print_freq, verbose, parameters, optimizer, losses,
          converged, iter, loss, delta_loss, pc, grad, nEvals, nBackward, nSteps,
          nPrints, status, error, twin, dofcall>>

\* The call of optimize as one record.
Frame ==
    [tensors |-> tensors, tol |-> tol, max_iter |-> max_iter, print_freq |-> print_freq,
     verbose |-> verbose, parameters |-> parameters, optimizer |-> optimizer,
     losses |-> losses, converged |-> converged, iter |-> iter, loss |-> loss,
     delta_loss |-> delta_loss, pc |-> pc, grad |-> grad, nEvals |-> nEvals,
     nBackward |-> nBackward, nSteps |-> nSteps, nPrints |-> nPrints,
     status |-> status, error |-> error]

Install(f) ==
    /\ tensors' = f.tensors /\ tol' = f.tol /\ max_iter' = f.max_iter
    /\ print_freq' = f.print_freq /\ verbose' = f.verbose
    /\ parameters' = f.parameters /\ optimizer' = f.optimizer /\ losses' = f.losses
    /\ converged' = f.converged /\ iter' = f.iter /\ loss' = f.loss
    /\ delta_loss' = f.delta_loss /\ pc' = f.pc /\ grad' = f.grad
    /\ nEvals' = f.nEvals /\ nBackward' = f.nBackward /\ nSteps' = f.nSteps
    /\ nPrints' = f.nPrints /\ status' = f.status /\ error' = f.error

\* The call is in the state f.
At(f) ==
    /\ tensors = f.tensors /\ tol = f.tol /\ max_iter = f.max_iter
    /\ print_freq = f.print_freq /\ verbose = f.verbose
    /\ parameters = f.parameters /\ optimizer = f.optimizer /\ losses = f.losses
    /\ converged = f.converged /\ iter = f.iter /\ loss = f.loss
    /\ delta_loss = f.delta_loss /\ pc = f.pc /\ grad = f.grad
    /\ nEvals = f.nEvals /\ nBackward = f.nBackward /\ nSteps = f.nSteps
    /\ nPrints = f.nPrints /\ status = f.status /\ error = f.error

\* optimize(tensors, loss_function, tol, max_iter, print_freq, verbose) on entry.
Call(ts, tl, mi, pf, vb) ==
    [tensors |-> ts, tol |-> tl, max_iter |-> mi, print_freq |-> pf, verbose |-> vb,
     parameters |-> <<>>, optimizer |-> "none", losses |-> <<>>, converged |-> FALSE,
     iter |-> 0, loss |-> <<>>, delta_loss |-> NegInf, pc |-> "start", grad |-> "unset",
     nEvals |-> 0, nBackward |-> 0, nSteps |-> 0, nPrints |-> 0,
     status |-> "none", error |-> "none"]

\* No call.
Idle == [Call(ListOf(<<>>), NoTol, 0, 1, FALSE) EXCEPT !.pc = "idle"]

Raise(f, what) == [f EXCEPT !.pc = "raised", !.error = what]

\* Lines 24-37: collect the parameters, create the optimizer, set the locals.
DoStart(f) ==
    LET ts == Normalize(f.tensors)
        ps == CollectParameters(ts.items)
    IN  IF Len(ps) = 0
        THEN Raise([f EXCEPT !.tensors = ts, !.parameters = ps], "ValueError")
        ELSE [f EXCEPT !.tensors = ts, !.parameters = ps, !.optimizer = "Adam",
                       !.losses = <<>>, !.converged = FALSE, !.iter = 0,
                       !.pc = "zero_grad"]

\* The reset that also empties the loss trace.
DoZeroGradClear(f) == [f EXCEPT !.grad = "zero", !.losses = <<>>, !.pc = "loss"]

\* Line 39: optimizer.zero_grad()
DoZeroGrad(f) == [f EXCEPT !.grad = "zero", !.pc = "loss"]

\* Lines 41-42: a result that is no tuple or list becomes a one-element list.
NormalizeLoss(e) == IF ~e.isSeq THEN <<e.items[1]>> ELSE e.items

\* The evaluation that starts the loop body again when loss_function raises.
DoLossRetry(f, e) ==
    IF e.raises THEN [f EXCEPT !.nEvals = @ + 1, !.error = "loss_function", !.pc = "zero_grad"]
    ELSE LET l == NormalizeLoss(e)
             ls == Append(f.losses, Reduce(l))
         IN  [f EXCEPT !.nEvals = @ + 1, !.loss = l, !.losses = ls,
                       !.delta_loss = DeltaLoss(ls), !.pc = "check"]

\* Lines 40-47: evaluate the loss function, append the combined loss.
DoLoss(f, e) ==
    IF e.raises THEN Raise([f EXCEPT !.nEvals = @ + 1], "loss_function")
    ELSE LET l == NormalizeLoss(e)
             ls == Append(f.losses, Reduce(l))
         IN  [f EXCEPT !.nEvals = @ + 1, !.loss = l, !.losses = ls,
                       !.delta_loss = DeltaLoss(ls), !.pc = "check"]

\* The check with the budget test before the stopping criterion.
DoCheckBudgetFirst(f) ==
    IF BudgetExhausted(f.iter, f.max_iter)
    THEN [f EXCEPT !.pc = "final"]
    ELSE IF StoppingCriterion(f.iter, f.tol, f.losses, f.delta_loss)
         THEN [f EXCEPT !.converged = TRUE, !.pc = "final"]
         ELSE [f EXCEPT !.pc = "report"]

\* The check without the break at iter == max_iter.
DoCheckNoBudget(f) ==
    IF StoppingCriterion(f.iter, f.tol, f.losses, f.delta_loss)
    THEN [f EXCEPT !.converged = TRUE, !.pc = "final"]
    ELSE [f EXCEPT !.pc = "report"]

\* Lines 48-53: the two breaks.
DoCheck(f) ==
    IF StoppingCriterion(f.iter, f.tol, f.losses, f.delta_loss)
    THEN [f EXCEPT !.converged = TRUE, !.pc = "final"]
    ELSE IF BudgetExhausted(f.iter, f.max_iter)
         THEN [f EXCEPT !.pc = "final"]
         ELSE [f EXCEPT !.pc = "report"]

\* Line 54: verbose and iter % print_freq == 0
ShouldReport(verbose_, iter_, print_freq_) ==
    verbose_ /\ RemainderIsZero(iter_, print_freq_)

\* Lines 54-59: progress report.
DoReport(f) ==
    IF f.verbose /\ f.print_freq = 0 THEN Raise(f, "ZeroDivisionError")
    ELSE IF ShouldReport(f.verbose, f.iter, f.print_freq)
         THEN [f EXCEPT !.nPrints = @ + 1, !.pc = "backward"]
         ELSE [f EXCEPT !.pc = "backward"]

\* Line 60: losses[-1].backward()
DoBackward(f, e) ==
    IF e.raises THEN Raise(f, "backward")
    ELSE [f EXCEPT !.grad = "computed", !.nBackward = @ + 1, !.pc = "step"]

\* Lines 61-62: optimizer.step(); iter += 1
DoStep(f, e) ==
    IF e.raises THEN Raise(f, "step")
    ELSE [f EXCEPT !.nSteps = @ + 1, !.iter = @ + 1, !.pc = "zero_grad"]

\* Lines 63-72: the final status line.
DoFinal(f) ==
    IF f.verbose
    THEN [f EXCEPT !.status = IF f.converged THEN "converged" ELSE "max_iter", !.pc = "done"]
    ELSE [f EXCEPT !.pc = "done"]

\* What the environment may answer at the frame's position.
Choices(f) ==
    CASE f.pc = "loss" -> LossResults
      [] f.pc \in {"backward", "step"} -> {Ok, Raises}
      [] OTHER -> {Ok}

CanStep(f) ==
    /\ f.pc \notin {"idle", "done", "raised"}
    /\ f.pc = "loss" => f.nEvals < EvalCap

\* One step of a call.
StepOf(f, e) ==
    CASE ~CanStep(f) -> f
      [] f.pc = "start" -> DoStart(f)
      [] f.pc = "zero_grad" -> DoZeroGrad(f)
      [] f.pc = "loss" -> DoLoss(f, e)
      [] f.pc = "check" -> DoCheck(f)
      [] f.pc = "report" -> DoReport(f)
      [] f.pc = "backward" -> DoBackward(f, e)
      [] f.pc = "step" -> DoStep(f, e)
      [] OTHER -> DoFinal(f)

\* --------------------------------------------------------------- actions
Start == pc = "start" /\ Install(DoStart(Frame)) /\ UNCHANGED <<twin, dofcall>>

ZeroGrad == pc = "zero_grad" /\ Install(DoZeroGrad(Frame)) /\ UNCHANGED <<twin, dofcall>>

EvalLoss ==
    /\ pc = "loss"
    /\ nEvals < EvalCap
    /\ \E e \in LossResults : Install(DoLoss(Frame, e))
    /\ UNCHANGED <<twin, dofcall>>

Check == pc = "check" /\ Install(DoCheck(Frame)) /\ UNCHANGED <<twin, dofcall>>

Report == pc = "report" /\ Install(DoReport(Frame)) /\ UNCHANGED <<twin, dofcall>>

Backward ==
    /\ pc = "backward"
    /\ \E e \in {Ok, Raises} : Install(DoBackward(Frame, e))
    /\ UNCHANGED <<twin, dofcall>>

Step ==
    /\ pc = "step"
    /\ \E e \in {Ok, Raises} : Install(DoStep(Frame, e))
    /\ UNCHANGED <<twin, dofcall>>

Final == pc = "final" /\ Install(DoFinal(Frame)) /\ UNCHANGED <<twin, dofcall>>

Next == Start \/ ZeroGrad \/ EvalLoss \/ Check \/ Report \/ Backward \/ Step \/ Final

NoDof == [t |-> Network(<<>>, <<>>), given |-> Network(<<>>, <<>>), pc |-> "idle", result |-> 0]

\* dof(t) is called and returns.
CallDof ==
    /\ dofcall.pc = "call"
    /\ dofcall' = [dofcall EXCEPT !.result = dof(dofcall.t), !.pc = "returned"]
    /\ UNCHANGED <<tensors, tol, max_iter, print_freq, verbose, parameters, optimizer,
                   losses, converged, iter, loss, delta_loss, pc, grad, nEvals,
                   nBackward, nSteps, nPrints, status, error, twin>>

\* Two calls that take their steps together and get the same answers from
\* the environment wherever they stand at the same position.
PairStep ==
    /\ CanStep(Frame) \/ CanStep(twin)
    /\ \E e1 \in Choices(Frame), e2 \in Choices(twin) :
          /\ pc = twin.pc => e1 = e2
          /\ Install(StepOf(Frame, e1))
          /\ twin' = StepOf(twin, e2)
    /\ UNCHANGED dofcall

\* ---------------------------------------------------------- specifications
\* Sequences over S of length 0..n.
SeqsUpTo(S, n) == UNION {[1..k -> S] : k \in 0..n}

\* The arguments a call is followed for through the whole loop ...
DeepArgs ==
    {Single(Network(<<Core(3)>>, <<NoneObj>>)),
     ListOf(<<Network(<<Core(2)>>, <<Factor(3)>>)>>),
     ListOf(<<Network(<<Core(2)>>, <<NoneObj>>)>>)}

\* The networks of the lists below: one dimension, a learnable or a frozen
\* core, no factor or a learnable or a frozen one.
ListNetworks ==
    {Network(<<c>>, <<u>>) : c \in {Core(1), Core(2)},
                             u \in {NoneObj, Factor(1), Factor(2)}}

\* ... and those it is followed for through its first iteration: every lone
\* network, and every list of up to MaxTensors of the networks above.
WideArgs ==
    {Single(t) : t \in Networks}
        \cup {ListOf(ts) : ts \in SeqsUpTo(ListNetworks, MaxTensors)}

Init ==
    /\ \E ts \in DeepArgs, tl \in Tols, mi \in -1..MaxIter,
          pf \in -1..MaxPrintFreq, vb \in BOOLEAN :
            At(Call(ts, tl, mi, pf, vb))
    /\ twin = Idle
    /\ dofcall = NoDof

Spec == Init /\ [][Next]_vars

\* The loop never waits: a call that can take a step takes it.
InitFair ==
    /\ \E ts \in DeepArgs, tl \in {NoTol, Tol(1)}, mi \in -1..MaxIter,
          rp \in {<<TRUE, 0>>, <<TRUE, 1>>} :
            /\ ts.isList
            /\ At(Call(ts, tl, mi, rp[2], rp[1]))
    /\ twin = Idle
    /\ dofcall = NoDof

FairSpec == InitFair /\ [][Next]_vars /\ WF_vars(Next)

InitParams ==
    /\ \E ts \in WideArgs : At(Call(ts, Tol(1), 1, 1, TRUE))
    /\ twin = Idle
    /\ dofcall = NoDof

SpecParams == InitParams /\ [][Next]_vars

InitPair ==
    /\ \E ts \in {Single(Network(<<Core(3)>>, <<NoneObj>>))}, tl \in Tols,
          mi \in 0..MaxIter - 1, pf \in -1..MaxPrintFreq, vb \in BOOLEAN,
          pf2 \in -1..MaxPrintFreq, vb2 \in BOOLEAN :
            /\ At(Call(ts, tl, mi, pf, vb))
            /\ twin = Call(ts, tl, mi, pf2, vb2)
    /\ dofcall = NoDof

SpecPair == InitPair /\ [][PairStep]_vars

InitDof ==
    /\ At(Idle)
    /\ twin = Idle
    /\ \E t \in Networks : dofcall = [t |-> t, given |-> t, pc |-> "call", result |-> 0]

SpecDof == InitDof /\ [][CallDof]_vars

\* optimize(t, ...) and dof(t) are called on the same lone network; optimize
\* is followed up to its optimizer's creation or its configuration error.
InitAgree ==
    /\ \E t \in Networks :
          /\ At(Call(Single(t), Tol(1), 1, 1, TRUE))
          /\ dofcall = [t |-> t, given |-> t, pc |-> "call", result |-> 0]
    /\ twin = Idle

NextAgree == Start \/ CallDof

SpecAgree == InitAgree /\ [][NextAgree]_vars

\* ================================================================= claims
\* The stopping check of iteration iter has been made.
Checked ==
    \/ pc \in {"report", "backward", "step", "final", "done"}
    \/ pc = "raised" /\ error \in {"ZeroDivisionError", "backward", "step"}

\* The loss of iteration k (iterations count from 0).
LossAt(k) == losses[k + 1]

\* a / b <= tol for the float quotient of two integers.
QuotientLeqTol(a, b) ==
    IF b > 0 THEN 2 * a <= tol.num * b
    ELSE IF b < 0 THEN 2 * a >= tol.num * b
    ELSE a < 0

\* The criterion of the specification at iteration n.
SpecCriterion(n) ==
    /\ n >= 2
    /\ ~tol.isNone
    /\ \/ 2 * LossAt(n) <= tol.num
       \/ QuotientLeqTol(-(LossAt(n) - LossAt(n - 1)), LossAt(n))
    /\ LossAt(n - 1) - LossAt(n) < LossAt(n - 2) - LossAt(n - 1)

NoCollaboratorRaised == error \notin {"loss_function", "backward", "step"}

\* The call has found parameters to optimize.
HasParameters == pc # "start" /\ error # "ValueError"

\* The call has ended.
Terminated == pc \in {"done", "raised"}

\* C2 as stated, for every max_iter: with parameters and no collaborator
\* raising, loss_function is evaluated at most max_iter+1 times, the optimizer
\* steps at most max_iter times, and the call ends only as converged or as
\* budget-exhausted after max_iter+1 loop bodies.
C2_Original ==
    (HasParameters /\ NoCollaboratorRaised) =>
        /\ nEvals <= max_iter + 1
        /\ nSteps <= max_iter
        /\ pc # "raised"
        /\ pc = "done" => (converged \/ (iter = max_iter /\ nEvals = max_iter + 1))

\* How a call with max_iter >= 0 may stand.
C2_Budget ==
    /\ nEvals <= max_iter + 1
    /\ nSteps <= max_iter
    /\ pc = "done" => (converged \/ (iter = max_iter /\ nEvals = max_iter + 1))
    /\ pc = "raised" =>
          \/ error = "ValueError" /\ parameters = <<>>
          \/ ~NoCollaboratorRaised
          \/ error = "ZeroDivisionError" /\ verbose /\ print_freq = 0 /\ iter = 0

\* C2 (amended): for every max_iter >= 0, every tol and every loss trajectory
\* the call ends: as converged, as budget-exhausted after max_iter+1 loop
\* bodies, or with an exception (no parameters, a collaborator's, or the
\* ZeroDivisionError of the progress test of iteration 0 when verbose is set
\* and print_freq is 0); loss_function is never evaluated more than max_iter+1
\* times and the optimizer never steps more than max_iter times.
C2_Terminates ==
    /\ [](max_iter >= 0 => C2_Budget)
    /\ (max_iter >= 0) => <>Terminated

\* C2 witness: a call ended budget-exhausted after max_iter+1 evaluations and
\* max_iter steps.
C2_Witness ==
    /\ pc = "done" /\ ~converged /\ max_iter >= 2
    /\ nEvals = max_iter + 1 /\ nSteps = max_iter /\ iter = max_iter

\* No core and no present factor of the supplied networks is learnable.
NothingLearnable ==
    \A k \in DOMAIN tensors.items :
        LET t == tensors.items[k]
        IN  /\ \A n \in DOMAIN t.cores : ~t.cores[n].requires_grad
            /\ \A n \in DOMAIN t.Us : IsNone(t.Us[n]) \/ ~t.Us[n].requires_grad

\* C3: a call on networks with nothing learnable raises the configuration
\* error at once: loss_function is never evaluated, no optimizer is created,
\* no gradient is reset or computed and no parameter is changed.
C3_NoParametersRaises ==
    (NothingLearnable /\ pc # "start") =>
        /\ pc = "raised" /\ error = "ValueError"
        /\ nEvals = 0 /\ optimizer = "none" /\ grad = "unset"
        /\ nBackward = 0 /\ nSteps = 0 /\ losses = <<>>

\* C3 witness: the configuration error on two networks, one with a present
\* but frozen factor.
C3_Witness ==
    /\ pc = "raised" /\ error = "ValueError"
    /\ Len(tensors.items) = 2
    /\ ~IsNone(tensors.items[1].Us[1])
    /\ IsNone(tensors.items[2].Us[1])

\* Every loss so far is c.
AllLosses(c) == \A k \in DOMAIN losses : losses[k] = c

\* The loss function has returned the same non-zero value above tol each time.
ConstantLoss ==
    /\ losses # <<>>
    /\ ~tol.isNone
    /\ losses[1] # 0
    /\ 2 * losses[1] > tol.num
    /\ AllLosses(losses[1])

\* C4: with a constant non-zero loss above tol and max_iter >= 0, converged is
\* never set, and a call that ends has made max_iter steps and max_iter+1
\* evaluations and reports that max_iter was reached.
C4_ConstantLoss ==
    (ConstantLoss /\ max_iter >= 0) =>
        /\ ~converged
        /\ nEvals <= max_iter + 1
        /\ pc \in {"final", "done"} =>
              iter = max_iter /\ nSteps = max_iter /\ nEvals = max_iter + 1
        /\ status # "converged"
        /\ (pc = "done" /\ verbose) => status = "max_iter"

\* C4 witness: a verbose call on a constant loss ended after four evaluations
\* with tol >= 0.
C4_Witness ==
    /\ ConstantLoss /\ pc = "done" /\ status = "max_iter"
    /\ tol.num >= 0 /\ Len(losses) >= 4

\* The losses so far fall strictly, each improvement smaller than the one
\* before, down to 0, where the last step is flat.
DeceleratingToZero ==
    /\ Len(losses) >= 3
    /\ losses[Len(losses)] = 0
    /\ losses[Len(losses) - 1] = 0
    /\ \A k \in 1..(Len(losses) - 2) : losses[k] > losses[k + 1]
    /\ \A k \in 1..(Len(losses) - 2) :
          losses[k + 1] - losses[k + 2] < losses[k] - losses[k + 1]

PositiveTol == ~tol.isNone /\ tol.num > 0

\* The losses so far begin a sequence of that kind: positive at first, each
\* either strictly smaller than the one before, by a smaller step than the
\* step before, or flat at 0.
TowardsZero ==
    /\ losses # <<>>
    /\ losses[1] > 0
    /\ \A k \in DOMAIN losses : losses[k] >= 0
    /\ \A k \in 1..(Len(losses) - 1) :
          \/ losses[k] > losses[k + 1]
          \/ losses[k] = 0 /\ losses[k + 1] = 0
    /\ \A k \in 1..(Len(losses) - 2) :
          losses[k + 1] - losses[k + 2] < losses[k] - losses[k + 1]
              \/ (losses[k + 1] = 0 /\ losses[k + 2] = 0)

C6_NoTol ==
    tol.isNone =>
        /\ ~converged
        /\ pc \in {"final", "done"} =>
              iter = max_iter /\ nEvals = max_iter + 1 /\ nSteps = max_iter
        /\ status # "converged"
        /\ (pc = "done" /\ verbose) => status = "max_iter"

\* C6 witness: a call with tol = None ended on losses that fall to 0 and slow
\* down.
C6_Witness ==
    /\ tol.isNone /\ pc = "done" /\ status = "max_iter" /\ iter >= 2
    /\ LossAt(iter) <= 0
    /\ LossAt(iter - 1) - LossAt(iter) < LossAt(iter - 2) - LossAt(iter - 1)

\* (a / b) < tol for the float quotient of two integers.
QuotientBelowTol(a, b) ==
    IF b > 0 THEN 2 * a < tol.num * b
    ELSE IF b < 0 THEN 2 * a > tol.num * b
    ELSE a < 0

\* C7 (the docstring): a call that has stopped as converged has a last
\* improvement below tol, absolutely or relative to the last loss, and
\* smaller than the improvement before.
C7_Docstring ==
    (Checked /\ converged) =>
        /\ \/ 2 * (LossAt(iter - 1) - LossAt(iter)) < tol.num
           \/ QuotientBelowTol(LossAt(iter - 1) - LossAt(iter), LossAt(iter))
        /\ LossAt(iter - 1) - LossAt(iter) < LossAt(iter - 2) - LossAt(iter - 1)

\* The learnable cores and present learnable factors of the networks.
LearnableObjects ==
    UNION {{t.cores[n] : n \in {m \in DOMAIN t.cores : t.cores[m].requires_grad}}
              \cup {t.Us[n] : n \in {m \in DOMAIN t.Us :
                                        ~IsNone(t.Us[m]) /\ t.Us[m].requires_grad}}
           : t \in {tensors.items[k] : k \in DOMAIN tensors.items}}

\* C8: the collected parameters are exactly the learnable objects, each once.
C8_UniqueParameters ==
    pc # "start" =>
        /\ {parameters[i] : i \in DOMAIN parameters} = LearnableObjects
        /\ \A i, j \in DOMAIN parameters : i # j => parameters[i] # parameters[j]

\* What a call does, apart from what it prints.
Control(f) ==
    [pc |-> f.pc, iter |-> f.iter, losses |-> f.losses, converged |-> f.converged,
     grad |-> f.grad, nEvals |-> f.nEvals, nBackward |-> f.nBackward,
     nSteps |-> f.nSteps, error |-> f.error]

\* C9: two calls that differ only in verbose and print_freq make the same
\* evaluations, backward passes and steps, stop at the same iteration and
\* end the same way.
C9_Observational == Control(Frame) = Control(twin)

RECURSIVE SumOver(_, _)
SumOver(S, t) ==
    IF S = {} THEN 0
    ELSE LET x == CHOOSE y \in S : TRUE
         IN  (IF x[1] = "core" THEN t.cores[x[2]].numel ELSE t.Us[x[2]].numel)
                + SumOver(S \ {x}, t)

\* The positions of the learnable cores and of the present learnable factors.
LearnablePositions(t) ==
    {<<"core", n>> : n \in {m \in DOMAIN t.cores : t.cores[m].requires_grad}}
        \cup {<<"U", n>> : n \in {m \in DOMAIN t.Us :
                                     ~IsNone(t.Us[m]) /\ t.Us[m].requires_grad}}

\* C10: dof returns the sum of the element counts of the learnable cores and
\* of the present learnable factors, and leaves the network as it was.
C10_DofSum ==
    dofcall.pc = "returned" =>
        /\ dofcall.result = SumOver(LearnablePositions(dofcall.given), dofcall.given)
        /\ dofcall.t = dofcall.given

\* C10 witness: dof returned on two dimensions with a frozen core, a learnable
\* core, a frozen factor and an absent factor, counting only the core.
C10_Witness ==
    /\ dofcall.pc = "returned"
    /\ ndim(dofcall.t) = 2
    /\ ~dofcall.t.cores[1].requires_grad /\ dofcall.t.cores[1].numel > 0
    /\ dofcall.t.cores[2].requires_grad /\ dofcall.t.cores[2].numel > 0
    /\ ~IsNone(dofcall.t.Us[1]) /\ ~dofcall.t.Us[1].requires_grad
    /\ dofcall.t.Us[1].numel > 0
    /\ IsNone(dofcall.t.Us[2])
    /\ dofcall.result = dofcall.t.cores[2].numel

\* The loss function has returned and the combined loss is appended.
Appended == pc \in {"check", "report", "backward", "step", "final", "done"}

\* The sum of the components of a loss of one or two scalars.
ComponentSum(l) == IF Len(l) = 2 THEN l[1] + l[2] ELSE l[1]

\* C11: at every iteration the loss appended to the trace, which the stopping
\* check reads and backward is called on, is the sum of the components that
\* loss_function returned: of both for a tuple of two scalars, the scalar
\* itself for a scalar.
C11_CombinedLoss ==
    (Appended \/ (pc = "raised" /\ error \in {"ZeroDivisionError", "backward", "step"})) =>
        /\ Len(loss) \in {1, 2}
        /\ Last(losses, 1) = ComponentSum(loss)
        /\ delta_loss = DeltaLoss(losses)

\* C11 witness: backward is about to be called at iteration 1 on the loss 2 of
\* a tuple <<1, 1>>.
C11_Witness ==
    /\ pc = "backward" /\ iter = 1
    /\ loss = <<1, 1>> /\ Last(losses, 1) = 2

\* The calls made so far: loss evaluations, backward passes, optimizer steps.
Counts == <<nEvals, nBackward, nSteps>>

\* What one step of a call may do, by its position.
InOrder ==
    /\ pc = "zero_grad" => (pc' = "loss" /\ grad' = "zero" /\ UNCHANGED <<Counts, losses, iter>>)
    /\ pc = "loss" =>
          /\ nEvals' = nEvals + 1 /\ UNCHANGED <<nBackward, nSteps, iter>>
          /\ \/ pc' = "check" /\ Len(losses') = Len(losses) + 1
             \/ pc' = "raised" /\ losses' = losses
    /\ pc = "check" =>
          /\ UNCHANGED <<Counts, losses, iter>>
          /\ \/ pc' = "final" /\ (converged' \/ iter = max_iter)
             \/ pc' = "report" /\ ~converged' /\ iter # max_iter
    /\ pc = "report" => (pc' \in {"backward", "raised"} /\ UNCHANGED <<Counts, losses, iter>>)
    /\ pc = "backward" =>
          /\ UNCHANGED <<nEvals, nSteps, losses, iter>>
          /\ \/ pc' = "step" /\ nBackward' = nBackward + 1 /\ grad' = "computed"
             \/ pc' = "raised" /\ nBackward' = nBackward
    /\ pc = "step" =>
          /\ UNCHANGED <<nEvals, nBackward, losses>>
          /\ \/ pc' = "zero_grad" /\ nSteps' = nSteps + 1 /\ iter' = iter + 1
             \/ pc' = "raised" /\ nSteps' = nSteps /\ iter' = iter
    /\ pc = "final" => (pc' = "done" /\ UNCHANGED <<Counts, losses, iter, converged>>)

\* How the counts stand when the loop is left.
AtLoopEnd ==
    pc' \in {"final", "done"} =>
        /\ nSteps' = nEvals' - 1
        /\ nBackward' = nSteps'
        /\ nSteps' = iter'
        /\ Len(losses') = nEvals'

\* C12: every step of a call keeps the order zero_grad, loss evaluation with
\* the append, stopping check, then (only when neither converged nor
\* iter = max_iter) the progress report, backward and exactly one optimizer
\* step before the next zero_grad; no backward and no step follows the
\* evaluation at which the loop ends, so when the loop is left the steps are
\* the evaluations minus one and the final iteration count.
C12_EventOrder == [][InOrder /\ AtLoopEnd]_vars

\* C12 witness: a call has ended after three evaluations, two backward
\* passes and two steps, at iteration 2.
C12_Witness ==
    /\ pc = "done" /\ status # "none"
    /\ nEvals = 3 /\ nBackward = 2 /\ nSteps = 2 /\ iter = 2

\* How a call stands once a collaborator has raised at iteration iter: it has
\* ended with that exception, after iter completed steps, with no status line.
AfterFailure ==
    /\ pc = "raised"
    /\ status = "none"
    /\ ~converged
    /\ nSteps = iter
    /\ nEvals = iter + 1
    /\ error = "loss_function" => (nBackward = iter /\ Len(losses) = iter)
    /\ error = "backward" => (nBackward = iter /\ Len(losses) = iter + 1)
    /\ error = "step" => (nBackward = iter + 1 /\ Len(losses) = iter + 1)

\* C13: when loss_function, backward or the optimizer step raises at iteration
\* k, the call ends with that exception and does nothing more: no retry, no
\* further zero_grad, evaluation, backward or step, exactly the k steps
\* completed before have been applied, and no final status line is printed.
C13_FailureSurfaces ==
    /\ [](~NoCollaboratorRaised => AfterFailure)
    /\ [][pc # "raised"]_vars

\* C13 witness: loss_function raised at iteration 2 of a verbose call that
\* had reported progress; two steps have been applied.
C13_Witness ==
    /\ pc = "raised" /\ error = "loss_function"
    /\ verbose /\ nPrints > 0
    /\ iter = 2 /\ nSteps = 2 /\ nEvals = 3

\* The stopping check of the last iteration of the budget has been made and
\* the criterion held there.
CriterionAtBudget ==
    /\ Checked
    /\ max_iter >= 2
    /\ iter = max_iter
    /\ SpecCriterion(iter)

\* C14: when the criterion holds at iteration max_iter (max_iter >= 2) the
\* call ends converged and a verbose call prints "converged", never
\* "max_iter was reached"; that line is printed only by a call that left
\* the loop at iter = max_iter with the criterion not met there.
C14_CriterionFirst ==
    /\ CriterionAtBudget =>
          /\ converged
          /\ pc \in {"final", "done"}
          /\ status # "max_iter"
          /\ (pc = "done" /\ verbose) => status = "converged"
    /\ status = "max_iter" =>
          /\ pc = "done"
          /\ ~converged
          /\ iter = max_iter
          /\ ~SpecCriterion(iter)

\* C14 witness: a verbose call met the criterion at iteration max_iter and
\* printed "converged".
C14_Witness ==
    /\ CriterionAtBudget
    /\ pc = "done" /\ converged /\ status = "converged"

\* Every loss so far is positive and tol is a number >= 0.
PositiveLosses == (\A k \in DOMAIN losses : losses[k] > 0) /\ ~tol.isNone /\ tol.num >= 0

\* The loss of iteration iter is above tol and above the loss before it.
GotWorse ==
    /\ iter >= 1
    /\ Len(losses) = iter + 1
    /\ LossAt(iter) > LossAt(iter - 1)
    /\ 2 * LossAt(iter) > tol.num

\* C15: with positive losses and tol >= 0 a call never stops as converged
\* at an iteration whose loss is above tol and strictly greater than the
\* loss of the iteration before (stated for the calls with max_iter >= 0).
C15_NeverOnWorse ==
    (PositiveLosses /\ GotWorse /\ max_iter >= 0) => (~converged /\ status # "converged")

\* The length of the loss trace by the position of the call: iter entries
\* before the append of iteration iter, iter + 1 after it.
TraceLength ==
    /\ pc = "start" => losses = <<>>
    /\ pc \in {"zero_grad", "loss"} => Len(losses) = iter
    /\ Appended => Len(losses) = iter + 1
    /\ pc = "raised" =>
          Len(losses) = (IF error \in {"ValueError", "loss_function"} THEN iter ELSE iter + 1)
    /\ nEvals = Len(losses) + (IF error = "loss_function" THEN 1 ELSE 0)

\* Right after the append the loop body reads no entry the trace lacks.
LookbackInTrace == pc = "check" => LookbackDepth(iter, tol, losses) <= Len(losses)

\* A step keeps the trace or appends one entry to it, at the loss evaluation.
TraceGrows ==
    \/ losses' = losses
    \/ /\ pc = "loss"
       /\ Len(losses') = Len(losses) + 1
       /\ SubSeq(losses', 1, Len(losses)) = losses

\* C16: the loss trace starts empty, grows by exactly one entry per loss
\* evaluation and is never truncated, so right after the append of iteration
\* n it has n + 1 entries; losses[-3] is read only from a trace of at least 3
\* entries and losses[-2] only from one of at least 2, for every max_iter
\* and every loss trajectory.
C16_TraceInvariant ==
    /\ [](TraceLength /\ LookbackInTrace)
    /\ [][TraceGrows]_vars

\* C16 witness: the stopping check of iteration 2 of a call with a negative
\* max_iter is about to read losses[-3] from a trace of 3 entries.
C16_Witness ==
    /\ pc = "check" /\ iter = 2 /\ max_iter < 0
    /\ LookbackDepth(iter, tol, losses) = 3
    /\ Len(losses) = 3

\* Every core and every present factor of t has a positive element count.
PositiveCounts(t) ==
    /\ \A n \in DOMAIN t.cores : t.cores[n].numel > 0
    /\ \A n \in DOMAIN t.Us : IsNone(t.Us[n]) \/ t.Us[n].numel > 0

\* optimize has passed its parameter collection and dof has returned, both
\* called on the same network.
BothCalled ==
    /\ pc # "start"
    /\ dofcall.pc = "returned"
    /\ tensors.items = <<dofcall.given>>

\* C17: for a lone network t with as many cores and factors as dimensions
\* and positive element counts, optimize(t, ...) raises the "no parameters
\* to optimize" error if and only if dof(t) = 0.
C17_DofAgrees ==
    (BothCalled /\ PositiveCounts(dofcall.given)) =>
        ((pc = "raised" /\ error = "ValueError") <=> dofcall.result = 0)

\* C17 witness: on a network of two dimensions with a frozen factor present,
\* optimize has raised the configuration error and dof has returned 0.
C17_Witness ==
    /\ BothCalled /\ PositiveCounts(dofcall.given)
    /\ ndim(dofcall.given) = 2
    /\ ~IsNone(dofcall.given.Us[1])
    /\ pc = "raised" /\ error = "ValueError"
    /\ dofcall.result = 0

====
